---- MODULE Spec2Model ----
(***************************************************************************)
(* The generate -> run -> repair loop of xgroq_python.py.                  *)
(*                                                                         *)
(* The script asks the generation service for a program, writes it to the  *)
(* source file, runs it, and on a non-zero exit asks for a repaired        *)
(* program, until a run succeeds, the cumulative generation time reaches   *)
(* max_time, or the attempt counter passes max_attempts.                   *)
(*                                                                         *)
(* Durations are whole ticks of the clock.  The text of the candidate      *)
(* returned by the k-th generation call is CandidateText(k): its header    *)
(* carries the time stamp and the measured duration of that call, so the   *)
(* candidates of one run are told apart by the call that produced them.    *)
(*                                                                         *)
(* Spec is one run of the script, exceptions of the service, of the file   *)
(* operations and of subprocess.run included.  SpecPair lets a finished    *)
(* run be followed by a second run of the script on the same inputs with   *)
(* other print flags, so that the two runs can be compared.                *)
(***************************************************************************)
EXTENDS Naturals, Sequences, FiniteSets, TLC

(* ------------------------------ bounds --------------------------------- *)

\* largest max_attempts the configurations range over
MaxAttempts == 3

\* largest max_time (in ticks) the configurations range over
MaxTime == 2

\* longest duration (in ticks) of one generation call
MaxDuration == 1

\* most lines of a response of the generation service
MaxLines == 4

(* ------------------------- values of the model ------------------------- *)

\* contents of a file that does not exist / a variable not yet assigned
Absent == "<absent>"

\* what a write that raised half way leaves in a file
Partial == "<partial>"

\* a file left in the directory by an earlier run of the script
Stale == "<stale>"

\* exit statuses of the interpreter subprocess
ExitCodes == {0, 1}

\* bytes the candidate may write to standard error
StderrBytes == {"E1\n", "E2\r\n"}

\* text the candidate may write to standard output
StdoutTexts == {"5\n"}

\* durations one generation call may take
Durations == 0..MaxDuration

\* the text returned by the k-th generation call, header included
CandidateText(k) == "candidate " \o ToString(k)

\* text=True / open(..., "r"): universal newlines, "\r\n" is read as "\n"
UniversalNewlines(bytes) == IF bytes = "E2\r\n" THEN "E2\n" ELSE bytes

(* ------------------- generate_code: the response text ----------------- *)

\* A text is the sequence of the lines that "\n".join makes it from; the
\* lines themselves hold no line break.

\* line 111: the backtick character; a string of TLA+ cannot hold it, so the
\* texts of the model write it as an at sign
Backtick == "@"

\* line 100: the closing fence, three backticks
Fence == Backtick \o Backtick \o Backtick

\* line 88: the fence that opens a block of Python
Opener == Fence \o "python"

\* line 88: an opener with blanks around it, which strip() takes away
IndentedOpener == "  " \o Opener \o " "

\* line 111: a line of code between backticks
Quoted == Backtick \o "x" \o Backtick

\* line 111: a line with blanks before its first backtick
IndentedQuoted == "  " \o Quoted

\* lines a response may be made of
BaseLines ==
    {Opener, IndentedOpener, Fence, "print(1)", "", "   ", "# note",
     "Here is the code:", Quoted, IndentedQuoted}

\* line 88: line.strip() == Opener
IsOpener(line) == line \in {Opener, IndentedOpener}

\* line 100: line.strip() == Fence
IsCloser(line) == line = Fence

\* line 111: line.strip().startswith(a backtick)
StartsWithBacktick(line) ==
    line \in {Opener, IndentedOpener, Fence, Quoted, IndentedQuoted}

\* lines 119-124: the four comment lines put before the code
Header ==
    <<"# Generated from prompt file", "# Model used", "# Time generated",
      "# Generation time">>

\* lines 95, 106: line.startswith("#")
StartsWithHash(line) ==
    line \in {"# note"} \cup {"#" \o b : b \in BaseLines} \cup
             {Header[i] : i \in 1..Len(Header)}

\* line 116: not line.strip()
IsBlank(line) == line \in {"", "   "}

\* lines 103, 106, 113: "\n".join(lines); the texts of [] and of [""] are
\* the same empty string
JoinLines(ls) == IF ls = <<"">> THEN << >> ELSE ls

\* lines 83, 109, 116: text.splitlines(); a text that ends with a line
\* break has no last empty line
SplitLines(text) ==
    IF text # << >> /\ text[Len(text)] = ""
    THEN SubSeq(text, 1, Len(text) - 1)
    ELSE text

RECURSIVE FindOpener(_, _)
\* lines 86-90: the index of the first opener from i on, 0 when there is none
\* (code_start_idx, counted from 1)
FindOpener(lines, i) ==
    IF i > Len(lines) THEN 0
    ELSE IF IsOpener(lines[i]) THEN i
    ELSE FindOpener(lines, i + 1)

\* lines 94-96: the list lines with "#" put before the lines up to the opener
CommentPreamble(lines, code_start_idx) ==
    [i \in 1..Len(lines) |->
        IF i <= code_start_idx /\ ~StartsWithHash(lines[i])
        THEN "#" \o lines[i]
        ELSE lines[i]]

\* mutant of ExtractUntilFence: the closing fence is skipped, the loop goes on
RECURSIVE ExtractUntilFence_NoBreak(_, _)
ExtractUntilFence_NoBreak(lines, i) ==
    IF i > Len(lines) THEN << >>
    ELSE IF IsCloser(lines[i]) THEN ExtractUntilFence_NoBreak(lines, i + 1)
    ELSE <<lines[i]>> \o ExtractUntilFence_NoBreak(lines, i + 1)

RECURSIVE ExtractUntilFence(_, _)
\* lines 98-102: the lines from i on, up to the first closing fence
ExtractUntilFence(lines, i) ==
    IF i > Len(lines) THEN << >>
    ELSE IF IsCloser(lines[i]) THEN << >>
    ELSE <<lines[i]>> \o ExtractUntilFence(lines, i + 1)

\* mutant of CommentEverything: blank lines are left as they are
CommentEverything_SkipBlank(lines) ==
    [i \in 1..Len(lines) |->
        IF StartsWithHash(lines[i]) \/ IsBlank(lines[i])
        THEN lines[i]
        ELSE "#" \o lines[i]]

\* line 106: "#" before every line that does not start with "#"
CommentEverything(lines) ==
    [i \in 1..Len(lines) |->
        IF ~StartsWithHash(lines[i]) THEN "#" \o lines[i] ELSE lines[i]]

\* lines 93-106: the text code before the backtick pass
ExtractedCode(content) ==
    LET lines == SplitLines(content)
        code_start_idx == FindOpener(lines, 1)
    IN  IF code_start_idx # 0
        THEN JoinLines(ExtractUntilFence(CommentPreamble(lines, code_start_idx),
                                         code_start_idx + 1))
        ELSE JoinLines(CommentEverything(lines))

\* mutant of NeutralizeBackticks: the line is not stripped before the test
NeutralizeBackticks_NoStrip(text) ==
    LET code_lines == SplitLines(text)
    IN  JoinLines([i \in 1..Len(code_lines) |->
                      IF code_lines[i] \in {Opener, Fence, Quoted}
                      THEN "#" \o code_lines[i]
                      ELSE code_lines[i]])

\* lines 109-113: "#" before every line that starts with a backtick
NeutralizeBackticks(text) ==
    LET code_lines == SplitLines(text)
    IN  JoinLines([i \in 1..Len(code_lines) |->
                      IF StartsWithBacktick(code_lines[i])
                      THEN "#" \o code_lines[i]
                      ELSE code_lines[i]])

\* mutant of CountLoc: every line is counted
CountLoc_AllLines(text) == Len(SplitLines(text))

\* line 116: the number of lines of the text that are not blank
CountLoc(text) == Len(SelectSeq(SplitLines(text), LAMBDA line : ~IsBlank(line)))

\* lines 80-125: what generate_code makes of the content of a response
generate_code(content) ==
    LET code == NeutralizeBackticks(ExtractedCode(content))
    IN  [code |-> code, loc |-> CountLoc(code)]

\* the responses of at most MaxLines lines
Responses == UNION {[1..n -> BaseLines] : n \in 0..MaxLines}

\* a response with a fenced block
FencedResponse == <<Opener, "print(1)", Fence>>

\* a response with no fence
PlainResponse == <<"Here is the code:", "print(1)">>

VARIABLES
    \* configuration (src lines 52-59)
    max_attempts, max_time, print_output, print_code,
    print_runtime_error_messages,
    \* the script's variables
    prompt, code, gen_time, initial_gen_time, total_gen_time, attempts,
    success, output, error,
    \* the files: source_file and the numbered archives base_name<i>.py
    artifact, archive,
    \* what the script printed in its last step
    console,
    \* where the script is
    pc,
    \* history: calls made, durations and outcomes received, what ran last,
    \* the archive numbers written, the calls and writes of the run in order
    genCalls, execCalls, durations, outcomes, executed, stderr_raw,
    archiveWrites, trace,
    \* the record of an earlier, finished run of the script on the same inputs
    previous,
    \* what the generation service and the interpreter may answer
    service,
    \* the content of the last response (line 80) as lines, the code made of
    \* it (line 113) as lines, and its counts of lines (lines 169, 204)
    response, code_body, loc, initial_loc,
    \* history: the call that raised an exception nobody caught, if any
    raised

config == <<max_attempts, max_time, print_output, print_code,
            print_runtime_error_messages>>
locals == <<prompt, code, gen_time, initial_gen_time, total_gen_time, attempts>>
result == <<success, output, error>>
files == <<artifact, archive>>
flags == <<print_output, print_code, print_runtime_error_messages>>
setup == <<config, previous, service>>
generated == <<response, code_body, loc, initial_loc>>
history == <<genCalls, execCalls, durations, outcomes, executed, stderr_raw,
             archiveWrites, trace>>
vars == <<setup, locals, generated, result, files, console, pc, history, raised>>

\* the three ways the loop ends (the break statements of lines 185, 198, 213)
Terminal == {"Succeeded", "FailedMaxTime", "FailedMaxAttempts"}

\* an exception nobody catches ends the script
Aborted == "Aborted"

(* ------------------------------ helpers -------------------------------- *)

\* line 166: the initial prompt
InitialPrompt == [kind |-> "initial", code |-> Absent, error |-> Absent]

\* mutant of RepairPrompt: the error text is left out of the prompt
RepairPrompt_WithoutError(c, e) == [kind |-> "repair", code |-> c, error |-> ""]

\* lines 200-203: the repair prompt embeds the code and the error
RepairPrompt(c, e) == [kind |-> "repair", code |-> c, error |-> e]

\* a line of the report
Line(ev, n, secs, c, o, e) ==
    [event |-> ev, attempts |-> n, seconds |-> secs, code |-> c, output |-> o,
     error |-> e]

\* one call or write of the run
Event(ev, text, detail) == [event |-> ev, text |-> text, detail |-> detail]

\* line 68: a call of the generation service with prompt p
GenerateEvent(p) == Event("generate " \o p.kind, p.code, p.error)

\* no earlier run is on record
NoPrevious ==
    [done |-> FALSE, flags |-> <<FALSE, FALSE, FALSE>>, trace |-> << >>,
     durations |-> << >>, outcomes |-> << >>]

\* lines 67-74: the durations the next generation call may take; a run that
\* repeats an earlier one receives what that run received
GenerationDurations ==
    IF previous.done /\ Len(durations) < Len(previous.durations)
    THEN {previous.durations[Len(durations) + 1]}
    ELSE Durations

\* a generation service that answers every call with the fenced block; the
\* interpreter may exit with any status on any program
FencedService == [responses |-> "fenced", comments_exit_zero |-> FALSE]

\* a generation service that answers with the fenced block or with prose;
\* the interpreter exits 0 on a program of comments only
SampleService == [responses |-> "samples", comments_exit_zero |-> TRUE]

\* a generation service that may answer with any response
AnyService == [responses |-> "any", comments_exit_zero |-> FALSE]

\* line 80: the contents the next response of the service may have
ServiceResponses ==
    CASE service.responses = "fenced" -> {FencedResponse}
      [] service.responses = "samples" -> {FencedResponse, PlainResponse}
      [] service.responses = "any" -> Responses

\* lines 134-140: the program in the source file is made of the header and
\* of comment lines and blank lines only
CommentOnly(text) ==
    \A i \in 1..Len(text) : StartsWithHash(text[i]) \/ IsBlank(text[i])

\* lines 140-157: what the next run of the interpreter may yield; a run that
\* repeats an earlier one receives what that run received
RunOutcomes ==
    IF previous.done /\ Len(outcomes) < Len(previous.outcomes)
    THEN {previous.outcomes[Len(outcomes) + 1]}
    ELSE {o \in [exit : ExitCodes, bytes : StderrBytes, out : StdoutTexts] :
             service.comments_exit_zero /\ CommentOnly(Header \o code_body)
                 => o.exit = 0}

\* lines 68, 131, 134, 140: whether a call of the service, a file operation
\* or the start of the interpreter may raise; in a run that repeats an
\* earlier, finished one they answer as they did then, without raising
EnvironmentMayRaise == ~previous.done

\* line 129: an archive is made from the second attempt on
ArchiveNeeded(attempt) == attempt > 1

\* mutant of ArchiveIndex: the archive takes the number of the new attempt
ArchiveIndex_SameNumber(attempt) == attempt

\* mutant of ArchiveIndex: every archive goes to the same numbered file
ArchiveIndex_Fixed(attempt) == 1

\* line 130: the archive is numbered attempt - 1
ArchiveIndex(attempt) == attempt - 1

\* mutant of CapturedError: with the messages switched off the error text
\* is not captured
CapturedError_Suppressed(flag, bytes) ==
    IF flag THEN UniversalNewlines(bytes) ELSE ""

\* lines 139-160: the error text test_code returns.  With the flag set the
\* pipe is read in text mode; without it the subprocess writes to
\* temp_runtime_error.txt, which is then read back in text mode.
CapturedError(flag, bytes) ==
    IF flag
    THEN UniversalNewlines(bytes)
    ELSE LET temp_runtime_error == bytes
         IN  UniversalNewlines(temp_runtime_error)

\* mutant of TimeBudgetReached: a total equal to max_time does not stop
TimeBudgetReached_Strict(total) == total > max_time

\* mutant of TimeBudgetReached: the attempt count is looked at first, the
\* time only while attempts remain
TimeBudgetReached_AfterAttemptCheck(total) ==
    total >= max_time /\ attempts < max_attempts

\* mutant of TimeBudgetReached: the last call's duration is compared, not
\* the cumulative time
TimeBudgetReached_LastOnly(total) == gen_time >= max_time

\* line 193
TimeBudgetReached(total) == total >= max_time

\* mutant of AttemptsExceeded: one more attempt is let through
AttemptsExceeded_OffByOne(n) == n > max_attempts + 1

\* line 208
AttemptsExceeded(n) == n > max_attempts

\* lines 177, 188, 190: the generation time shown for the attempt
ShownGenTime == IF attempts = 1 THEN initial_gen_time ELSE gen_time

(* ------------------------------- Init ---------------------------------- *)

Init ==
    /\ max_attempts \in 1..MaxAttempts
    /\ max_time \in 0..MaxTime
    /\ print_output \in BOOLEAN
    /\ print_code \in BOOLEAN
    /\ print_runtime_error_messages \in BOOLEAN
    /\ prompt = InitialPrompt
    /\ code = Absent
    /\ gen_time = 0
    /\ initial_gen_time = 0
    /\ total_gen_time = 0
    /\ attempts = 0
    /\ success = FALSE
    /\ output = Absent
    /\ error = Absent
    /\ artifact \in {Absent, Stale}
    /\ archive \in {<< >>, [i \in 1..MaxAttempts |-> Stale]}
    /\ console = Line("prompt", 0, 0, Absent, Absent, Absent)
    /\ pc = "start"
    /\ genCalls = 0
    /\ execCalls = 0
    /\ durations = << >>
    /\ outcomes = << >>
    /\ executed = Absent
    /\ stderr_raw = Absent
    /\ archiveWrites = << >>
    /\ trace = << >>
    /\ previous = NoPrevious
    /\ service = FencedService
    /\ response = << >>
    /\ code_body = << >>
    /\ loc = 0
    /\ initial_loc = 0
    /\ raised = "none"

(* ------------------------------ actions -------------------------------- *)

\* lines 169-171: the first generate_code call
InitialGeneration ==
    /\ pc = "start"
    /\ \E d \in GenerationDurations, content \in ServiceResponses :
         /\ code' = CandidateText(genCalls + 1)
         /\ response' = content
         /\ code_body' = generate_code(content).code
         /\ initial_loc' = generate_code(content).loc
         /\ initial_gen_time' = d
         /\ total_gen_time' = d
         /\ durations' = Append(durations, d)
    /\ attempts' = 1
    /\ genCalls' = genCalls + 1
    /\ trace' = Append(trace, GenerateEvent(prompt))
    /\ pc' = "archive"
    /\ UNCHANGED <<setup, raised, prompt, gen_time, loc, result, files,
                   console, execCalls, outcomes, executed, stderr_raw,
                   archiveWrites>>

\* lines 129-131 of test_code: copy the source file to the numbered archive
test_code_archive ==
    /\ pc = "archive"
    /\ IF ArchiveNeeded(attempts)
       THEN /\ archive' = (ArchiveIndex(attempts) :> artifact) @@ archive
            /\ archiveWrites' = Append(archiveWrites, ArchiveIndex(attempts))
            /\ trace' = Append(trace, Event("archive", artifact,
                                            ToString(ArchiveIndex(attempts))))
       ELSE UNCHANGED <<archive, archiveWrites, trace>>
    /\ pc' = "write"
    /\ UNCHANGED <<setup, generated, raised, locals, result, artifact, console, genCalls,
                   execCalls, durations, outcomes, executed, stderr_raw>>

\* lines 134-135 of test_code: overwrite the source file with the candidate
test_code_write ==
    /\ pc = "write"
    /\ artifact' = code
    /\ trace' = Append(trace, Event("write", code, ""))
    /\ pc' = "run"
    /\ UNCHANGED <<setup, generated, raised, locals, result, archive, console, genCalls,
                   execCalls, durations, outcomes, executed, stderr_raw,
                   archiveWrites>>

\* lines 138-162 of test_code: run the interpreter on the source file
test_code_run ==
    /\ pc = "run"
    /\ \E o \in RunOutcomes :
         /\ success' = (o.exit = 0)
         /\ output' = o.out
         /\ error' = CapturedError(print_runtime_error_messages, o.bytes)
         /\ stderr_raw' = o.bytes
         /\ outcomes' = Append(outcomes, o)
    /\ executed' = artifact
    /\ execCalls' = execCalls + 1
    /\ trace' = trace \o <<Event("run", artifact, ""),
                            Event("returned", error',
                                  IF success' THEN "success" ELSE "failure")>>
    /\ pc' = "ran"
    /\ UNCHANGED <<setup, generated, raised, locals, files, console, genCalls, durations,
                   archiveWrites>>

\* mutant of SuccessBranch: the break of line 185 is missing
SuccessBranch_NoBreak ==
    /\ pc = "ran"
    /\ success
    /\ console' = Line("Code ran successfully", attempts, total_gen_time,
                       IF print_code THEN code ELSE Absent,
                       IF print_output THEN output ELSE Absent, Absent)
    /\ pc' = "archive"
    /\ UNCHANGED <<setup, generated, raised, locals, result, files, history>>

\* lines 176-185: the run exited 0
SuccessBranch ==
    /\ pc = "ran"
    /\ success
    /\ console' = Line("Code ran successfully", attempts, total_gen_time,
                       IF print_code THEN code ELSE Absent,
                       IF print_output THEN output ELSE Absent, Absent)
    /\ trace' = Append(trace, Event("stop", "Succeeded", ""))
    /\ pc' = "Succeeded"
    /\ UNCHANGED <<setup, generated, raised, locals, result, files, genCalls, execCalls,
                   durations, outcomes, executed, stderr_raw, archiveWrites>>

\* lines 186-198: the run failed and the generation time is used up
MaxTimeBranch ==
    /\ pc = "ran"
    /\ ~success
    /\ TimeBudgetReached(total_gen_time)
    /\ console' = Line("Max generation time exceeded", attempts, total_gen_time,
                       IF print_code THEN code ELSE Absent, Absent,
                       IF print_runtime_error_messages THEN error ELSE Absent)
    /\ trace' = Append(trace, Event("stop", "FailedMaxTime", ""))
    /\ pc' = "FailedMaxTime"
    /\ UNCHANGED <<setup, generated, raised, locals, result, files, genCalls, execCalls,
                   durations, outcomes, executed, stderr_raw, archiveWrites>>

\* lines 186-191 and 200-213: the run failed; ask for a repaired program,
\* count the attempt, and stop when the counter passes max_attempts
RetryBranch ==
    /\ pc = "ran"
    /\ ~success
    /\ ~TimeBudgetReached(total_gen_time)
    /\ prompt' = RepairPrompt(code, error)
    /\ \E d \in GenerationDurations, content \in ServiceResponses :
         /\ code' = CandidateText(genCalls + 1)
         /\ response' = content
         /\ code_body' = generate_code(content).code
         /\ loc' = generate_code(content).loc
         /\ gen_time' = d
         /\ total_gen_time' = total_gen_time + d
         /\ durations' = Append(durations, d)
    /\ genCalls' = genCalls + 1
    /\ attempts' = attempts + 1
    /\ IF AttemptsExceeded(attempts')
       THEN /\ console' = Line("Max attempts reached", max_attempts,
                               total_gen_time',
                               IF print_code THEN code' ELSE Absent, Absent,
                               IF print_runtime_error_messages THEN error
                               ELSE Absent)
            /\ trace' = trace \o <<GenerateEvent(prompt'),
                                    Event("stop", "FailedMaxAttempts", "")>>
            /\ pc' = "FailedMaxAttempts"
       ELSE /\ console' = Line("Attempt failed", attempts, ShownGenTime,
                               Absent, Absent,
                               IF print_runtime_error_messages THEN error
                               ELSE Absent)
            /\ trace' = Append(trace, GenerateEvent(prompt'))
            /\ pc' = "archive"
    /\ UNCHANGED <<setup, raised, initial_gen_time, initial_loc, result, files,
                   execCalls, outcomes, executed, stderr_raw, archiveWrites>>

\* lines 68-72: the generation service raises, in the first call (line 169)
\* or in a repair call (line 204, after the failure line and the prompt)
generate_code_error ==
    /\ EnvironmentMayRaise
    /\ \/ /\ pc = "start"
          /\ UNCHANGED <<prompt, console>>
       \/ /\ pc = "ran"
          /\ ~success
          /\ ~TimeBudgetReached(total_gen_time)
          /\ prompt' = RepairPrompt(code, error)
          /\ console' = Line("Attempt failed", attempts, ShownGenTime,
                             Absent, Absent,
                             IF print_runtime_error_messages THEN error
                             ELSE Absent)
    /\ genCalls' = genCalls + 1
    /\ trace' = Append(trace, GenerateEvent(prompt'))
    /\ pc' = Aborted
    /\ raised' = "generation"
    /\ UNCHANGED <<setup, generated, code, gen_time, initial_gen_time,
                   total_gen_time, attempts, result, files, execCalls,
                   durations, outcomes, executed, stderr_raw, archiveWrites>>

\* mutant of test_code_archive_error: the source file is overwritten before
\* the copy is made
test_code_archive_error_WriteFirst ==
    /\ pc = "archive"
    /\ EnvironmentMayRaise
    /\ ArchiveNeeded(attempts)
    /\ artifact' = code
    /\ \/ UNCHANGED archive
       \/ archive' = (ArchiveIndex(attempts) :> Partial) @@ archive
    /\ pc' = Aborted
    /\ raised' = "archive"
    /\ UNCHANGED <<setup, generated, locals, result, console, history>>

\* line 131: shutil.copyfile raises; the archive is untouched or half written
test_code_archive_error ==
    /\ pc = "archive"
    /\ EnvironmentMayRaise
    /\ ArchiveNeeded(attempts)
    /\ \/ UNCHANGED archive
       \/ archive' = (ArchiveIndex(attempts) :> Partial) @@ archive
    /\ pc' = Aborted
    /\ raised' = "archive"
    /\ UNCHANGED <<setup, generated, locals, result, artifact, console,
                   history>>

\* mutant of test_code_write_error: the exception is caught and the loop
\* goes on to run what the source file holds
test_code_write_error_Caught ==
    /\ pc = "write"
    /\ EnvironmentMayRaise
    /\ artifact' \in {artifact, Partial}
    /\ pc' = "run"
    /\ raised' = "write"
    /\ UNCHANGED <<setup, generated, locals, result, archive, console,
                   history>>

\* lines 134-135: open or write raises; the source file is untouched or
\* truncated
test_code_write_error ==
    /\ pc = "write"
    /\ EnvironmentMayRaise
    /\ artifact' \in {artifact, Partial}
    /\ pc' = Aborted
    /\ raised' = "write"
    /\ UNCHANGED <<setup, generated, locals, result, archive, console,
                   history>>

\* lines 140-156: subprocess.run raises (the interpreter cannot be started)
test_code_run_error ==
    /\ pc = "run"
    /\ EnvironmentMayRaise
    /\ pc' = Aborted
    /\ raised' = "run"
    /\ UNCHANGED <<setup, generated, locals, result, files, console, history>>

Next ==
    \/ InitialGeneration
    \/ test_code_archive
    \/ test_code_write
    \/ test_code_run
    \/ SuccessBranch
    \/ MaxTimeBranch
    \/ RetryBranch
    \/ generate_code_error
    \/ test_code_archive_error
    \/ test_code_write_error
    \/ test_code_run_error

Spec == Init /\ [][Next]_vars

(* ------------- the script when every call returns --------------------- *)

\* lines 36-167: the script starts in an empty directory; the print flags
\* are set
InitLive ==
    /\ Init
    /\ print_output
    /\ print_code
    /\ print_runtime_error_messages
    /\ artifact = Absent
    /\ archive = << >>

\* lines 169-213: the steps of the script when no call raises
NextLive ==
    \/ InitialGeneration
    \/ test_code_archive
    \/ test_code_write
    \/ test_code_run
    \/ SuccessBranch
    \/ MaxTimeBranch
    \/ RetryBranch

\* the script is one sequential process: while a step is possible, the
\* next statement is executed
SpecLive == InitLive /\ [][NextLive]_vars /\ WF_vars(NextLive)

(* ------------- generate_code on every response ------------------------ *)

\* lines 36-167: the script starts in an empty directory with one setting of
\* the configuration; the service may answer with any response
InitSanitize ==
    /\ max_attempts = 1
    /\ max_time = 0
    /\ print_output = TRUE
    /\ print_code = TRUE
    /\ print_runtime_error_messages = TRUE
    /\ prompt = InitialPrompt
    /\ code = Absent
    /\ gen_time = 0
    /\ initial_gen_time = 0
    /\ total_gen_time = 0
    /\ attempts = 0
    /\ success = FALSE
    /\ output = Absent
    /\ error = Absent
    /\ artifact = Absent
    /\ archive = << >>
    /\ console = Line("prompt", 0, 0, Absent, Absent, Absent)
    /\ pc = "start"
    /\ genCalls = 0
    /\ execCalls = 0
    /\ durations = << >>
    /\ outcomes = << >>
    /\ executed = Absent
    /\ stderr_raw = Absent
    /\ archiveWrites = << >>
    /\ trace = << >>
    /\ previous = NoPrevious
    /\ service = AnyService
    /\ response = << >>
    /\ code_body = << >>
    /\ loc = 0
    /\ initial_loc = 0
    /\ raised = "none"

\* line 169: the first call of generate_code
NextSanitize == InitialGeneration

SpecSanitize == InitSanitize /\ [][NextSanitize]_vars

(* ------------- responses with and without a fenced block -------------- *)

\* lines 36-167: the script starts in an empty directory with the print
\* flags set; the service answers with the fenced block or with prose, and
\* the interpreter exits 0 on a program of comments only
InitFallback ==
    /\ max_attempts \in 1..MaxAttempts
    /\ max_time \in 0..MaxTime
    /\ print_output = TRUE
    /\ print_code = TRUE
    /\ print_runtime_error_messages = TRUE
    /\ prompt = InitialPrompt
    /\ code = Absent
    /\ gen_time = 0
    /\ initial_gen_time = 0
    /\ total_gen_time = 0
    /\ attempts = 0
    /\ success = FALSE
    /\ output = Absent
    /\ error = Absent
    /\ artifact = Absent
    /\ archive = << >>
    /\ console = Line("prompt", 0, 0, Absent, Absent, Absent)
    /\ pc = "start"
    /\ genCalls = 0
    /\ execCalls = 0
    /\ durations = << >>
    /\ outcomes = << >>
    /\ executed = Absent
    /\ stderr_raw = Absent
    /\ archiveWrites = << >>
    /\ trace = << >>
    /\ previous = NoPrevious
    /\ service = SampleService
    /\ response = << >>
    /\ code_body = << >>
    /\ loc = 0
    /\ initial_loc = 0
    /\ raised = "none"

\* lines 169-213: the script when every call returns
SpecFallback == InitFallback /\ [][NextLive]_vars /\ WF_vars(NextLive)

(* ------------- the script run twice on the same inputs ----------------- *)

\* a number for each setting of the three print flags
FlagRank(f) ==
    (IF f[1] THEN 4 ELSE 0) + (IF f[2] THEN 2 ELSE 0) + (IF f[3] THEN 1 ELSE 0)

\* lines 36-167: the script, having ended, is started again in the same
\* directory with the same max_attempts and max_time and other values of
\* the three print flags; the generation service and the interpreter answer
\* as they did in the run before (GenerationDurations, RunOutcomes).  Each
\* pair of different flag settings is taken once, lower rank first.
Rerun ==
    /\ pc \in Terminal
    /\ ~previous.done
    /\ previous' = [done |-> TRUE, flags |-> flags, trace |-> trace,
                    durations |-> durations, outcomes |-> outcomes]
    /\ print_output' \in BOOLEAN
    /\ print_code' \in BOOLEAN
    /\ print_runtime_error_messages' \in BOOLEAN
    /\ FlagRank(flags') > FlagRank(flags)
    /\ prompt' = InitialPrompt
    /\ code' = Absent
    /\ gen_time' = 0
    /\ initial_gen_time' = 0
    /\ total_gen_time' = 0
    /\ attempts' = 0
    /\ success' = FALSE
    /\ output' = Absent
    /\ error' = Absent
    /\ console' = Line("prompt", 0, 0, Absent, Absent, Absent)
    /\ pc' = "start"
    /\ genCalls' = 0
    /\ execCalls' = 0
    /\ durations' = << >>
    /\ outcomes' = << >>
    /\ executed' = Absent
    /\ stderr_raw' = Absent
    /\ archiveWrites' = << >>
    /\ trace' = << >>
    /\ response' = << >>
    /\ code_body' = << >>
    /\ loc' = 0
    /\ initial_loc' = 0
    /\ UNCHANGED <<max_attempts, max_time, service, files, raised>>

NextPair ==
    \/ Next
    \/ Rerun

\* the first of the two runs starts in an empty directory
InitPair ==
    /\ Init
    /\ artifact = Absent
    /\ archive = << >>

SpecPair == InitPair /\ [][NextPair]_vars

(* ----------------------- definitions for the claims -------------------- *)

RECURSIVE PrefixSum(_, _)
\* the sum of the first k entries of ds
PrefixSum(ds, k) == IF k = 0 THEN 0 ELSE PrefixSum(ds, k - 1) + ds[k]

\* the prefixes of ds whose sum has reached max_time
ReachingPrefixes(ds) == {k \in 1..Len(ds) : PrefixSum(ds, k) >= max_time}

\* the smallest k whose prefix sum has reached max_time; when none of the
\* durations seen so far reaches it, k* lies beyond them
KStar(ds) ==
    IF ReachingPrefixes(ds) = {}
    THEN Len(ds) + 1
    ELSE CHOOSE k \in ReachingPrefixes(ds) :
             \A j \in ReachingPrefixes(ds) : k <= j

Min(a, b) == IF a <= b THEN a ELSE b

\* the archive indices written so far in this run
WrittenIndices == {archiveWrites[n] : n \in 1..Len(archiveWrites)}

\* the archive indices written once each, in order, 1 .. n
WrittenOnceUpTo(n) == archiveWrites = [i \in 1..n |-> i]

(* ------------------------------- claims -------------------------------- *)

\* C1: when the loop stops with FailedMaxAttempts (every execution failed
\* and the time budget was never reached at a check), exactly max_attempts
\* generation calls and exactly max_attempts execution calls were made.
C1_MaxAttemptsCallCounts ==
    pc = "FailedMaxAttempts" =>
        /\ genCalls = max_attempts
        /\ execCalls = max_attempts

\* C2: when no execution succeeds, the number of executed attempts at
\* termination is min(max_attempts, k*), k* the first k whose first k
\* generation durations sum to max_time or more (equality stops the loop).
C2_FailedRunLength ==
    pc \in {"FailedMaxTime", "FailedMaxAttempts"} =>
        /\ Len(durations) >= execCalls
        /\ execCalls = Min(max_attempts, KStar(durations))

\* C2 witness: the loop stopped on time, with attempts to spare, on a sum
\* exactly equal to max_time reached at the second generation
C2_Witness ==
    /\ pc = "FailedMaxTime"
    /\ execCalls = 2
    /\ execCalls < max_attempts
    /\ PrefixSum(durations, 2) = max_time
    /\ PrefixSum(durations, 1) < max_time

\* C3: when the execution of attempt k is the first to exit 0, the loop
\* stops in Succeeded after k generation calls and k execution calls, the
\* run has made archives for exactly the indices 1..k-1, and nothing is
\* generated, executed or written afterwards.
C3_SuccessAtAttemptK ==
    /\ [](((pc = "ran" /\ success) \/ pc = "Succeeded") =>
            /\ genCalls = attempts
            /\ execCalls = attempts
            /\ WrittenOnceUpTo(attempts - 1)
            /\ \A i \in 1..(attempts - 1) :
                   i \in DOMAIN archive /\ archive[i] = CandidateText(i)
            /\ \A i \in DOMAIN archive :
                   archive[i] # Stale => i \in 1..(attempts - 1))
    /\ [][(pc = "ran" /\ success) =>
            /\ pc' = "Succeeded"
            /\ UNCHANGED <<files, locals, genCalls, execCalls, archiveWrites>>]_vars
    /\ [][pc # "Succeeded"]_vars

\* C3 witness: success at the second attempt, one archive made
C3_Witness ==
    /\ pc = "Succeeded"
    /\ attempts = 2
    /\ archiveWrites = <<1>>

\* C4: once the first execution has started, and in every terminal state,
\* the source file holds the text of the most recently produced candidate.
C4_ArtifactHoldsLatestCandidate ==
    pc \in {"run", "ran"} \cup Terminal => artifact = code

\* C5: test_code of attempt k >= 2 makes exactly one archive, numbered k-1,
\* before the source file is overwritten with candidate k, so that archive
\* k-1 holds candidate k-1; attempt 1 makes no archive.
C5_ArchiveBeforeOverwrite ==
    /\ pc = "write" =>
          /\ WrittenOnceUpTo(attempts - 1)
          /\ attempts >= 2 =>
                /\ artifact = CandidateText(attempts - 1)
                /\ archive[attempts - 1] = CandidateText(attempts - 1)
    /\ pc \in {"run", "ran"} =>
          /\ WrittenOnceUpTo(attempts - 1)
          /\ artifact = CandidateText(attempts)
          /\ \A i \in 1..(attempts - 1) : archive[i] = CandidateText(i)

\* C5 witness: the third attempt has archived candidate 2 and has not yet
\* overwritten the source file
C5_Witness ==
    /\ pc = "write"
    /\ attempts = 3
    /\ archive[2] = CandidateText(2)

\* C6: once the run has written the archive of index i, no later step
\* changes that file.
C6_ArchiveNeverRewritten ==
    [][\A i \in WrittenIndices :
           i \in DOMAIN archive' /\ archive'[i] = archive[i]]_vars

\* C6 witness: two archives were made and the loop went on to its end
C6_Witness ==
    /\ pc \in Terminal
    /\ Len(archiveWrites) >= 2

\* C7: after a failed execution the time budget is checked before the
\* attempt count: with total_gen_time >= max_time the loop ends in
\* FailedMaxTime, whatever the attempt number, and FailedMaxAttempts is
\* entered only from a failure with total_gen_time < max_time.
C7_TimeCheckedFirst ==
    [][/\ (pc = "ran" /\ ~success /\ total_gen_time >= max_time) =>
             pc' = "FailedMaxTime"
       /\ pc' = "FailedMaxAttempts" =>
             (pc = "ran" /\ ~success /\ total_gen_time < max_time)]_vars

\* C7 witness: the failure of attempt number max_attempts (not the first
\* attempt) ended on time
C7_Witness ==
    /\ pc = "FailedMaxTime"
    /\ max_attempts >= 2
    /\ attempts = max_attempts
    /\ execCalls = max_attempts

\* C8: no generation call but the first starts with total_gen_time >=
\* max_time; the time check is made only after a failed run, so the first
\* generation and the first execution happen whatever max_time is.
C8_NoGenerationOverBudget ==
    /\ [][(genCalls' > genCalls /\ genCalls >= 1) =>
             total_gen_time < max_time]_vars
    /\ [][pc' = "FailedMaxTime" => (pc = "ran" /\ ~success)]_vars
    /\ [](pc = "start" => ENABLED InitialGeneration)
    /\ [](pc = "run" => ENABLED test_code_run)
    /\ [](pc \in Terminal => (genCalls >= 1 /\ execCalls >= 1))

\* C8 witness: with max_time = 0 the first candidate was generated and run
\* before the loop stopped on time
C8_Witness ==
    /\ max_time = 0
    /\ pc = "FailedMaxTime"
    /\ genCalls = 1
    /\ execCalls = 1

\* C9: every candidate a generation call returns is written to the source
\* file and executed; no terminal state holds a candidate never executed.
C9_EveryCandidateExecuted ==
    pc \in Terminal =>
        /\ executed = code
        /\ execCalls = genCalls

\* s is an initial part of t
IsPrefix(s, t) == Len(s) <= Len(t) /\ s = SubSeq(t, 1, Len(s))

\* C10: two runs on the same generation responses, durations and execution
\* results that differ only in the three print flags make the same
\* generation calls with the same prompts, the same execution calls, the
\* same source-file and archive writes, in the same order, and end for the
\* same reason; test_code returns the full standard-error text whatever
\* print_runtime_error_messages is.
C10_FlagsDoNotSteer ==
    /\ previous.done => IsPrefix(trace, previous.trace)
    /\ (previous.done /\ pc \in Terminal) => trace = previous.trace
    /\ pc = "ran" => error = UniversalNewlines(stderr_raw)

\* C10 witness: a second run, with print_runtime_error_messages and
\* print_code changed, has gone through a failed attempt and a repair
\* prompt to its end
C10_Witness ==
    /\ previous.done
    /\ pc \in Terminal
    /\ print_runtime_error_messages # previous.flags[3]
    /\ print_code # previous.flags[2]
    /\ trace = previous.trace
    /\ execCalls >= 2
    /\ stderr_raw = "E2\r\n"

\* C11: test_code reports success exactly when the interpreter exited with
\* status 0, whatever it wrote; the prompt of every generation call after a
\* failed run embeds the text of the candidate that just ran and the standard
\* error read from that very run.
C11_RepairPromptQuotesFailedRun ==
    /\ [](pc = "ran" =>
            /\ success = (outcomes[Len(outcomes)].exit = 0)
            /\ output = outcomes[Len(outcomes)].out)
    /\ [][(genCalls' > genCalls /\ genCalls >= 1) =>
            /\ pc = "ran" /\ ~success
            /\ executed = CandidateText(execCalls)
            /\ stderr_raw = outcomes[execCalls].bytes
            /\ prompt'.code = executed
            /\ prompt'.error = UniversalNewlines(stderr_raw)]_vars

\* C11 witness: the third candidate ran with exit status 0 although it wrote
\* to standard error; it was asked for with the text and the error of the
\* second candidate, whose run had failed
C11_Witness ==
    /\ pc = "Succeeded"
    /\ attempts = 3
    /\ stderr_raw = "E1\n"
    /\ outcomes[2].exit = 1
    /\ prompt.code = CandidateText(2)
    /\ prompt.error = "E2\n"

\* the three reports of the loop's ends (lines 177, 194, 209)
TerminalReports ==
    {"Code ran successfully", "Max generation time exceeded",
     "Max attempts reached"}

\* C12: an exception of the generation service, of the archive copy or of
\* the write of the source file ends the run in the step that raises it: no
\* generation, execution or file write follows, and none of the three
\* terminal reasons is reported.  A new generation is asked for only after
\* a run that exited with a non-zero status.
C12_ExceptionsEndTheRun ==
    /\ [](raised # "none" => pc = Aborted)
    /\ [](pc = Aborted =>
            /\ raised # "none"
            /\ console.event \notin TerminalReports
            /\ \A i \in 1..Len(trace) : trace[i].event # "stop")
    /\ [][pc # Aborted]_vars
    /\ [][raised' # "none" =>
            /\ execCalls' = execCalls
            /\ code' = code
            /\ attempts' = attempts
            /\ total_gen_time' = total_gen_time]_vars
    /\ [][(genCalls' > genCalls /\ genCalls >= 1) =>
            /\ pc = "ran"
            /\ ~success
            /\ outcomes[Len(outcomes)].exit # 0]_vars

\* C12 witness: the write of the second candidate raised and left the source
\* file truncated; the run ended there, after one execution
C12_Witness ==
    /\ pc = Aborted
    /\ raised = "write"
    /\ attempts = 2
    /\ artifact = Partial
    /\ execCalls = 1
    /\ console.event = "Attempt failed"

(* ------------------ claims about generate_code ------------------------- *)

\* the lines of the last response, as line 83 splits it
ResponseLines == SplitLines(response)

\* some line of ls is a fence opener
HasOpener(ls) == \E i \in 1..Len(ls) : IsOpener(ls[i])

\* the index of the first fence opener of ls
FirstOpener(ls) ==
    CHOOSE i \in 1..Len(ls) :
        IsOpener(ls[i]) /\ \A j \in 1..(i - 1) : ~IsOpener(ls[j])

\* a closing fence follows line k of ls
HasCloserAfter(ls, k) == \E j \in (k + 1)..Len(ls) : IsCloser(ls[j])

\* the index of the first closing fence after line k of ls, or the index
\* after the last line when there is none
BlockEnd(ls, k) ==
    IF HasCloserAfter(ls, k)
    THEN CHOOSE j \in (k + 1)..Len(ls) :
             IsCloser(ls[j]) /\ \A m \in (k + 1)..(j - 1) : ~IsCloser(ls[m])
    ELSE Len(ls) + 1

\* the lines strictly between the first opener and the first closing fence
\* after it, or the end of the response
Between(ls) == SubSeq(ls, FirstOpener(ls) + 1, BlockEnd(ls, FirstOpener(ls)) - 1)

\* ls with "#" before each line that starts with a backtick
Hashed(ls) ==
    [i \in 1..Len(ls) |->
        IF StartsWithBacktick(ls[i]) THEN "#" \o ls[i] ELSE ls[i]]

\* C13 as stated: with a fence opener in the response the body is exactly
\* the lines strictly between the first opener and the first closing fence
\* after it (or the end of the response), and every line outside that range
\* has been turned into a comment line.
C13_BodyIsExactlyTheBlock ==
    (pc = "archive" /\ HasOpener(ResponseLines)) =>
        LET k == FirstOpener(ResponseLines)
            n == BlockEnd(ResponseLines, k)
        IN  /\ code_body = Between(ResponseLines)
            /\ \A i \in (1..k) \cup (n..Len(ResponseLines)) :
                   StartsWithHash(CommentPreamble(ResponseLines, k)[i])

\* C13 amended: with a fence opener in the response the body is the text of
\* the lines strictly between the first opener and the first closing fence
\* after it (or the end of the response), each line that starts with a
\* backtick prefixed with "#" and the text without its last line break; it
\* holds no line from outside that range.  The lines up to the opener are
\* made comments only in the list the block is cut from; the closing fence
\* and the lines after it are left as they are and dropped.
C13_BodyIsHashedBlock ==
    (pc = "archive" /\ HasOpener(ResponseLines)) =>
        LET k == FirstOpener(ResponseLines)
            n == BlockEnd(ResponseLines, k)
            block == SplitLines(JoinLines(Between(ResponseLines)))
        IN  /\ code_body = JoinLines(Hashed(block))
            /\ Len(code_body) <= n - k - 1
            /\ \A i \in 1..k :
                   StartsWithHash(CommentPreamble(ResponseLines, k)[i])
            /\ \A i \in n..Len(ResponseLines) :
                   CommentPreamble(ResponseLines, k)[i] = ResponseLines[i]

\* C13 witness: prose, an opener, a line of code and a closing fence; the
\* body is the line of code
C13_Witness ==
    /\ pc = "archive"
    /\ response = <<"Here is the code:", Opener, "print(1)", Fence>>
    /\ code_body = <<"print(1)">>

\* C14: with no fence opener in the response generate_code returns a body
\* with as many lines as the response; a line that starts with "#" is kept
\* and every other line, blank ones too, gets "#" put before it, so that no
\* line of the candidate is executable.
C14_NoFenceAllComments ==
    (pc = "archive" /\ ~HasOpener(ResponseLines)) =>
        /\ Len(code_body) = Len(ResponseLines)
        /\ \A i \in 1..Len(code_body) :
               /\ StartsWithHash(code_body[i])
               /\ StartsWithHash(ResponseLines[i]) =>
                      code_body[i] = ResponseLines[i]
               /\ ~StartsWithHash(ResponseLines[i]) =>
                      code_body[i] = "#" \o ResponseLines[i]
        /\ CommentOnly(Header \o code_body)

\* C14 witness: prose, a blank line, a comment and a closing fence, with no
\* opener
C14_Witness ==
    /\ pc = "archive"
    /\ response = <<"Here is the code:", "", "# note", Fence>>
    /\ code_body = <<"#Here is the code:", "#", "# note", "#" \o Fence>>

\* C15: no line of the final body starts with a backtick after blanks; the
\* last step puts "#" before every such line of the extracted body, inside
\* the fenced block too, and leaves every other line as it is.
C15_NoBacktickLine ==
    pc = "archive" =>
        LET extracted ==
                IF HasOpener(ResponseLines)
                THEN SplitLines(JoinLines(Between(ResponseLines)))
                ELSE [i \in 1..Len(ResponseLines) |->
                         IF StartsWithHash(ResponseLines[i])
                         THEN ResponseLines[i]
                         ELSE "#" \o ResponseLines[i]]
            final == SplitLines(code_body)
        IN  /\ \A i \in 1..Len(code_body) : ~StartsWithBacktick(code_body[i])
            /\ Len(final) = Len(SplitLines(JoinLines(extracted)))
            /\ \A i \in 1..Len(final) :
                   /\ StartsWithBacktick(extracted[i]) =>
                          final[i] = "#" \o extracted[i]
                   /\ ~StartsWithBacktick(extracted[i]) =>
                          final[i] = extracted[i]

\* C15 witness: a second opener and an indented backtick line inside the
\* fenced block are prefixed, the line of code is not
C15_Witness ==
    /\ pc = "archive"
    /\ response = <<Opener, Opener, IndentedQuoted, "print(1)">>
    /\ code_body = <<"#" \o Opener, "#" \o IndentedQuoted, "print(1)">>

\* lines 177, 188, 190: the count of lines shown for the attempt
ShownLoc == IF attempts = 1 THEN initial_loc ELSE loc

\* C16: loc is the number of lines of the final body that are not blank; a
\* line made a comment counts, the four lines of the header do not.
C16_LocCountsNonBlankBodyLines ==
    pc = "archive" =>
        ShownLoc = Cardinality({i \in 1..Len(code_body) : ~IsBlank(code_body[i])})

\* C16 witness: a line of code, a blank line and a backtick line made a
\* comment in the block: loc is 2
C16_Witness ==
    /\ pc = "archive"
    /\ response = <<Opener, "print(1)", "   ", Quoted>>
    /\ code_body = <<"print(1)", "   ", "#" \o Quoted>>
    /\ initial_loc = 2

(* ------------------ claims about the loop, continued ------------------- *)

\* C17: for every max_attempts >= 1 and max_time >= 0 and every sequence of
\* durations and run outcomes, when every call returns the loop reaches one
\* of Succeeded, FailedMaxAttempts, FailedMaxTime, stays there, and never
\* makes more than max_attempts execution calls.
C17_LoopTerminates ==
    /\ <>(pc \in Terminal)
    /\ [][(pc \in Terminal) => (pc' = pc)]_vars
    /\ [](execCalls <= max_attempts)

\* C17 witness: with max_attempts = 2 both runs failed within the time
\* budget and the loop ended on the attempt count
C17_Witness ==
    /\ pc = "FailedMaxAttempts"
    /\ max_attempts = 2
    /\ execCalls = 2
    /\ total_gen_time < max_time

\* C18: total_gen_time is always the sum of the durations of the generation
\* calls completed so far, and the total reported at a terminal state is the
\* sum over exactly the generation calls whose candidates were executed.
C18_TotalIsSumOfExecutedGenerations ==
    /\ total_gen_time = PrefixSum(durations, Len(durations))
    /\ pc \in Terminal => console.seconds = PrefixSum(durations, execCalls)

\* C19: when the archive copy of attempt k >= 2 raises, the source file
\* still holds candidate k-1, candidate k is neither written nor run, and no
\* archive numbered k-1 or higher holds candidate k.
C19_FailedArchiveLeavesArtifact ==
    raised = "archive" =>
        /\ pc = Aborted
        /\ attempts >= 2
        /\ code = CandidateText(attempts)
        /\ artifact = CandidateText(attempts - 1)
        /\ executed = CandidateText(attempts - 1)
        /\ execCalls = attempts - 1
        /\ \A i \in 1..Len(trace) :
               trace[i].event \in {"write", "run"} => trace[i].text # code
        /\ \A i \in DOMAIN archive : i >= attempts - 1 => archive[i] # code

\* C19 witness: the copy made for the third attempt raised and left
\* archive 2 half written
C19_Witness ==
    /\ raised = "archive"
    /\ attempts = 3
    /\ 2 \in DOMAIN archive
    /\ archive[2] = Partial
    /\ artifact = CandidateText(2)

\* C20: when the response to a generation call has no fence opener and a
\* program of comments only exits with status 0, the loop ends in Succeeded
\* at the attempt of that call, with no generation call after it.
C20_ProseResponseSucceeds ==
    ~HasOpener(ResponseLines) =>
        /\ pc = "ran" => success
        /\ pc \in Terminal =>
               /\ pc = "Succeeded"
               /\ executed = code
               /\ execCalls = genCalls

====
